---- MODULE Spec2Model ----
(***************************************************************************)
(* Model of the GUID fixer of Source/GuidFixer/Private/GuidFixer.cpp:      *)
(* FGuidFixerModule::ShouldModify, FixMaterialGuids, FixTextureGuids and   *)
(* FixEmptyTextureGuids.                                                   *)
(*                                                                         *)
(* The live objects are the slots 1..NumAssets of the object array, which  *)
(* TObjectIterator walks in index order; every assignment of kind, path    *)
(* and lighting GUID to the slots is an initial state, so every            *)
(* enumeration order of every asset set within the bounds is covered.      *)
(* A GUID is a natural number, 0 being the invalid (all-zero) GUID.  The   *)
(* code only tests GUIDs for validity and equality, so the initial states  *)
(* name the valid GUIDs 1, 2, ... in order of first appearance: every      *)
(* pattern of invalid, shared and unshared GUIDs over the slots occurs.    *)
(* SetLightingGuid() draws FGuid::NewGuid(), modelled as a counter that    *)
(* starts above every GUID in use: a fresh GUID is valid and differs from  *)
(* every GUID held or generated before.                                    *)
(* The menu commands may be run any number of times in any order.          *)
(***************************************************************************)
EXTENDS Naturals, Sequences, FiniteSets

\* Bounds of the model.
NumAssets == 3

Assets == 1..NumAssets
InvalidGuid == 0
InitialGuids == 0..NumAssets
Kinds == {"Material", "Texture"}
PathNames == {<<"Engine", "Asset">>, <<"Game", "Asset">>, <<"Plugin", "Asset">>}
Operations == {"FixMaterialGuids", "FixTextureGuids", "FixEmptyTextureGuids"}

VARIABLES
    path,          \* GetPathName() of every object, as its path segments
    kind,          \* class of every object
    guid,          \* LightingGuid of every object
    nextGuid,      \* state of the GUID generator
    op,            \* the operation running or last run ("none" before the first)
    pc,            \* "idle" | "scan" | "done"
    it,            \* TObjectIterator position (NumAssets + 1 when exhausted)
    Guids,         \* TMap<FGuid, T*> of the running scan
    bMadeChanges,
    bHasWarnings,
    DialogText,    \* text handed to FMessageDialog::Open ("" before)
    guid0,         \* history: the GUIDs of the initial state
    guidStart,     \* history: the GUIDs when the running scan started
    visits,        \* history: how often each object was the current one
    prevOp         \* history: the operation completed before the running one

vars == <<path, kind, guid, nextGuid, op, pc, it, Guids, bMadeChanges,
          bHasWarnings, DialogText, guid0, guidStart, visits, prevOp>>

----------------------------------------------------------------------------
\* Helpers: FString::StartsWith, FGuid::IsValid, TMap, TObjectIterator.

StartsWith(s, prefix) ==
    /\ Len(prefix) <= Len(s)
    /\ \A i \in 1..Len(prefix) : s[i] = prefix[i]

IsValid(g) == g /= InvalidGuid

EmptyMap == [k \in {} |-> 0]

MapContains(m, k) == k \in DOMAIN m

MapAdd(m, k, v) == [x \in (DOMAIN m) \cup {k} |-> IF x = k THEN v ELSE m[x]]

MapRemove(m, k) == [x \in (DOMAIN m) \ {k} |-> m[x]]

NextOfKindSkipOne(i, k) ==
    LET later == {j \in Assets : j > i + 1 /\ kind[j] = k}
    IN  IF later = {} THEN NumAssets + 1
        ELSE CHOOSE j \in later : \A j2 \in later : j <= j2

\* The next object of class k after slot i.
NextOfKind(i, k) ==
    LET later == {j \in Assets : j > i /\ kind[j] = k}
    IN  IF later = {} THEN NumAssets + 1
        ELSE CHOOSE j \in later : \A j2 \in later : j <= j2

----------------------------------------------------------------------------
\* FGuidFixerModule::ShouldModify

bIsEngineContent(Object) == StartsWith(path[Object], <<"Engine">>)

bIsProjectContent(Object) == StartsWith(path[Object], <<"Game">>)

bIsPluginContent(Object) == ~bIsEngineContent(Object) /\ ~bIsProjectContent(Object)

ShouldModifyNonEngine(Object) == ~bIsEngineContent(Object)

ShouldModify(Object) == bIsProjectContent(Object)

----------------------------------------------------------------------------
\* The locals of a scan together with the GUIDs, threaded through one
\* loop iteration.

Locals ==
    [guid |-> guid, nextGuid |-> nextGuid, Guids |-> Guids,
     bMadeChanges |-> bMadeChanges, bHasWarnings |-> bHasWarnings,
     bAnyGuidsModified |-> FALSE, skip |-> FALSE]

\* Object->SetLightingGuid(): a new GUID from the generator.
SetLightingGuid(s, Object) ==
    [s EXCEPT !.guid[Object] = s.nextGuid, !.nextGuid = s.nextGuid + 1]

----------------------------------------------------------------------------
\* FGuidFixerModule::FixMaterialGuids, one iteration of the loop.
\* (Modify() only marks the package dirty and is not part of the state.)

MaterialRepairInvalidThenSkip(s, Material) ==
    IF ~IsValid(s.guid[Material])
    THEN IF ShouldModify(Material)
         THEN [SetLightingGuid(s, Material) EXCEPT !.bMadeChanges = TRUE,
                                                   !.skip = TRUE]
         ELSE [s EXCEPT !.bHasWarnings = TRUE, !.skip = TRUE]
    ELSE s

\* if (!Material->GetLightingGuid().IsValid()) { ... }
MaterialRepairInvalid(s, Material) ==
    IF ~IsValid(s.guid[Material])
    THEN IF ShouldModify(Material)
         THEN [SetLightingGuid(s, Material) EXCEPT !.bMadeChanges = TRUE]
         ELSE [s EXCEPT !.bHasWarnings = TRUE, !.skip = TRUE]
    ELSE s

MaterialUpdateIncumbentKeepsKey(s, Material, ResultRef, CacheCurrentGuid) ==
    IF s.guid[ResultRef] = s.guid[Material] /\ ShouldModify(ResultRef)
    THEN [SetLightingGuid(s, ResultRef) EXCEPT !.bAnyGuidsModified = TRUE]
    ELSE s

\* if (ResultRef->GetLightingGuid() == Material->GetLightingGuid()) { ... }
MaterialUpdateIncumbent(s, Material, ResultRef, CacheCurrentGuid) ==
    IF s.guid[ResultRef] = s.guid[Material] /\ ShouldModify(ResultRef)
    THEN LET t == SetLightingGuid(s, ResultRef)
         IN  [t EXCEPT !.bAnyGuidsModified = TRUE,
                       !.Guids = MapAdd(MapRemove(t.Guids, CacheCurrentGuid),
                                        t.guid[ResultRef], ResultRef)]
    ELSE s

MaterialUpdateCurrentElseIf(s, Material) ==
    IF ~s.bAnyGuidsModified /\ ShouldModify(Material)
    THEN LET t == SetLightingGuid(s, Material)
         IN  [t EXCEPT !.bMadeChanges = TRUE,
                       !.bAnyGuidsModified = TRUE,
                       !.Guids = MapAdd(t.Guids, t.guid[Material], Material)]
    ELSE s

\* if (ShouldModify(*Material)) { ... }
MaterialUpdateCurrent(s, Material) ==
    IF ShouldModify(Material)
    THEN LET t == SetLightingGuid(s, Material)
         IN  [t EXCEPT !.bMadeChanges = TRUE,
                       !.bAnyGuidsModified = TRUE,
                       !.Guids = MapAdd(t.Guids, t.guid[Material], Material)]
    ELSE s

\* if (!bAnyGuidsModified) { ... }
MaterialWarnConflict(s) ==
    IF ~s.bAnyGuidsModified THEN [s EXCEPT !.bHasWarnings = TRUE] ELSE s

\* From "const FGuid CacheCurrentGuid" to the end of the loop body.
MaterialLookup(s, Material) ==
    LET CacheCurrentGuid == s.guid[Material]
    IN  IF MapContains(s.Guids, CacheCurrentGuid)
        THEN LET ResultRef == s.Guids[CacheCurrentGuid]
             IN  MaterialWarnConflict(
                     MaterialUpdateCurrent(
                         MaterialUpdateIncumbent(s, Material, ResultRef,
                                                 CacheCurrentGuid),
                         Material))
        ELSE [s EXCEPT !.Guids = MapAdd(s.Guids, s.guid[Material], Material)]

\* The loop body, from the locals s.
MaterialBody(s, Material) ==
    LET r == MaterialRepairInvalid(s, Material)
    IN  IF r.skip THEN r ELSE MaterialLookup(r, Material)

MaterialIteration(Material) == MaterialBody(Locals, Material)

----------------------------------------------------------------------------
\* FGuidFixerModule::FixTextureGuids, one iteration of the loop.

TextureRepairInvalid(s, Texture) ==
    IF ~IsValid(s.guid[Texture])
    THEN IF ShouldModify(Texture)
         THEN [SetLightingGuid(s, Texture) EXCEPT !.bMadeChanges = TRUE]
         ELSE [s EXCEPT !.bHasWarnings = TRUE, !.skip = TRUE]
    ELSE s

\* if (!Texture->GetLightingGuid().IsValid()) { ... continue; }
TextureWarnInvalid(s, Texture) ==
    IF ~IsValid(s.guid[Texture])
    THEN [s EXCEPT !.bHasWarnings = TRUE, !.skip = TRUE]
    ELSE s

TextureUpdateIncumbentSkipped(s, Texture, ResultRef, CacheCurrentGuid) == s

\* if (ResultRef->GetLightingGuid() == Texture->GetLightingGuid()) { ... }
TextureUpdateIncumbent(s, Texture, ResultRef, CacheCurrentGuid) ==
    IF s.guid[ResultRef] = s.guid[Texture] /\ ShouldModify(ResultRef)
    THEN LET t == SetLightingGuid(s, ResultRef)
         IN  [t EXCEPT !.bAnyGuidsModified = TRUE,
                       !.Guids = MapAdd(MapRemove(t.Guids, CacheCurrentGuid),
                                        t.guid[ResultRef], ResultRef)]
    ELSE s

TextureUpdateCurrentElseIf(s, Texture) ==
    IF ~s.bAnyGuidsModified /\ ShouldModify(Texture)
    THEN LET t == SetLightingGuid(s, Texture)
         IN  [t EXCEPT !.bMadeChanges = TRUE,
                       !.bAnyGuidsModified = TRUE,
                       !.Guids = MapAdd(t.Guids, t.guid[Texture], Texture)]
    ELSE s

\* if (ShouldModify(*Texture)) { ... }
TextureUpdateCurrent(s, Texture) ==
    IF ShouldModify(Texture)
    THEN LET t == SetLightingGuid(s, Texture)
         IN  [t EXCEPT !.bMadeChanges = TRUE,
                       !.bAnyGuidsModified = TRUE,
                       !.Guids = MapAdd(t.Guids, t.guid[Texture], Texture)]
    ELSE s

\* if (!bAnyGuidsModified) { ... }
TextureWarnConflict(s) ==
    IF ~s.bAnyGuidsModified THEN [s EXCEPT !.bHasWarnings = TRUE] ELSE s

\* From "const FGuid CacheCurrentGuid" to the end of the loop body.
TextureLookup(s, Texture) ==
    LET CacheCurrentGuid == s.guid[Texture]
    IN  IF MapContains(s.Guids, CacheCurrentGuid)
        THEN LET ResultRef == s.Guids[CacheCurrentGuid]
             IN  TextureWarnConflict(
                     TextureUpdateCurrent(
                         TextureUpdateIncumbent(s, Texture, ResultRef,
                                                CacheCurrentGuid),
                         Texture))
        ELSE [s EXCEPT !.Guids = MapAdd(s.Guids, s.guid[Texture], Texture)]

\* The loop body, from the locals s.
TextureBody(s, Texture) ==
    LET r == TextureWarnInvalid(s, Texture)
    IN  IF r.skip THEN r ELSE TextureLookup(r, Texture)

TextureIteration(Texture) == TextureBody(Locals, Texture)

----------------------------------------------------------------------------
\* FGuidFixerModule::FixEmptyTextureGuids, one iteration of the loop.

EmptyTextureIterationNoSkip(Texture) ==
    IF ShouldModify(Texture)
    THEN [SetLightingGuid(Locals, Texture) EXCEPT !.bMadeChanges = TRUE]
    ELSE [Locals EXCEPT !.bHasWarnings = TRUE]

EmptyTextureIteration(Texture) ==
    IF IsValid(guid[Texture])
    THEN Locals
    ELSE IF ShouldModify(Texture)
         THEN [SetLightingGuid(Locals, Texture) EXCEPT !.bMadeChanges = TRUE]
         ELSE [Locals EXCEPT !.bHasWarnings = TRUE]

----------------------------------------------------------------------------
\* The report of each operation.

MaterialDialogText(made, warn) ==
    IF made /\ warn
    THEN "At least one material GUID has been changed, but there are some unresolvable issues (Please refer to log). Use save all to save these changes."
    ELSE IF made
    THEN "At least one material GUID has been changed. Use save all to save these changes."
    ELSE IF warn
    THEN "No material GUID has been changed, but there are some unresolvable issues (Please refer to log)."
    ELSE "No duplicate material GUIDs found."

TextureDialogText(made, warn) ==
    IF made /\ warn
    THEN "At least one texture GUID has been changed, but there are some unresolvable issues (Please refer to log). Use save all to save these changes."
    ELSE IF made
    THEN "At least one texture GUID has been changed. Use save all to save these changes."
    ELSE IF warn
    THEN "No texture GUID has been changed, but there are some unresolvable issues (Please refer to log)."
    ELSE "No duplicate texture GUIDs found."

EmptyTextureDialogText(made, warn) ==
    IF made /\ warn
    THEN "At least one texture GUID has been changed, but there are some unresolvable issues (Please refer to log). Use save all to save these changes."
    ELSE IF made
    THEN "At least one texture GUID has been changed. Use save all to save these changes."
    ELSE IF warn
    THEN "No texture GUID has been changed, but there are some unresolvable issues (Please refer to log)."
    ELSE "No empty texture GUIDs found."

----------------------------------------------------------------------------
\* State machine.

\* The valid GUIDs are numbered in the order in which the slots show them.
FirstAppearanceOrder(g) ==
    \A a \in Assets : \A v \in 1..NumAssets :
        v < g[a] => \E b \in Assets : b < a /\ g[b] = v

Init ==
    /\ path \in [Assets -> PathNames]
    /\ kind \in [Assets -> Kinds]
    /\ guid \in [Assets -> InitialGuids]
    /\ FirstAppearanceOrder(guid)
    /\ nextGuid = NumAssets + 1
    /\ op = "none"
    /\ pc = "idle"
    /\ it = NumAssets + 1
    /\ Guids = EmptyMap
    /\ bMadeChanges = FALSE
    /\ bHasWarnings = FALSE
    /\ DialogText = ""
    /\ guid0 = guid
    /\ guidStart = guid
    /\ visits = [a \in Assets |-> 0]
    /\ prevOp = "none"

\* A menu command starts an operation: the locals are initialised and the
\* iterator is placed on the first object of the class.
Begin(o, k) ==
    /\ pc \in {"idle", "done"}
    /\ op' = o
    /\ pc' = "scan"
    /\ it' = NextOfKind(0, k)
    /\ Guids' = EmptyMap
    /\ bMadeChanges' = FALSE
    /\ bHasWarnings' = FALSE
    /\ DialogText' = ""
    /\ guidStart' = guid
    /\ visits' = [a \in Assets |-> 0]
    /\ prevOp' = op
    /\ UNCHANGED <<path, kind, guid, nextGuid, guid0>>

\* The end of a loop iteration: the locals are stored and ++Iterator.
Iterate(o, k, s) ==
    /\ pc = "scan"
    /\ op = o
    /\ it <= NumAssets
    /\ guid' = s.guid
    /\ nextGuid' = s.nextGuid
    /\ Guids' = s.Guids
    /\ bMadeChanges' = s.bMadeChanges
    /\ bHasWarnings' = s.bHasWarnings
    /\ it' = NextOfKind(it, k)
    /\ visits' = [visits EXCEPT ![it] = @ + 1]
    /\ UNCHANGED <<path, kind, op, pc, DialogText, guid0, guidStart, prevOp>>

\* The loop is over: FMessageDialog::Open(EAppMsgType::Ok, DialogText).
Report(o, text) ==
    /\ pc = "scan"
    /\ op = o
    /\ it > NumAssets
    /\ pc' = "done"
    /\ DialogText' = text
    /\ UNCHANGED <<path, kind, guid, nextGuid, op, it, Guids, bMadeChanges,
                   bHasWarnings, guid0, guidStart, visits, prevOp>>

FixMaterialGuidsBegin == Begin("FixMaterialGuids", "Material")

FixMaterialGuidsLoop ==
    /\ it <= NumAssets
    /\ Iterate("FixMaterialGuids", "Material", MaterialIteration(it))

FixMaterialGuidsReport ==
    Report("FixMaterialGuids", MaterialDialogText(bMadeChanges, bHasWarnings))

FixTextureGuidsBegin == Begin("FixTextureGuids", "Texture")

FixTextureGuidsLoop ==
    /\ it <= NumAssets
    /\ Iterate("FixTextureGuids", "Texture", TextureIteration(it))

FixTextureGuidsReport ==
    Report("FixTextureGuids", TextureDialogText(bMadeChanges, bHasWarnings))

FixEmptyTextureGuidsBegin == Begin("FixEmptyTextureGuids", "Texture")

FixEmptyTextureGuidsLoop ==
    /\ it <= NumAssets
    /\ Iterate("FixEmptyTextureGuids", "Texture", EmptyTextureIteration(it))

FixEmptyTextureGuidsReport ==
    Report("FixEmptyTextureGuids",
           EmptyTextureDialogText(bMadeChanges, bHasWarnings))

Next ==
    \/ FixMaterialGuidsBegin
    \/ FixMaterialGuidsLoop
    \/ FixMaterialGuidsReport
    \/ FixTextureGuidsBegin
    \/ FixTextureGuidsLoop
    \/ FixTextureGuidsReport
    \/ FixEmptyTextureGuidsBegin
    \/ FixEmptyTextureGuidsLoop
    \/ FixEmptyTextureGuidsReport

Spec == Init /\ [][Next]_vars

\* An operation runs to completion once started (single-threaded,
\* synchronous): its loop and its report are never postponed forever.
Running ==
    \/ FixMaterialGuidsLoop
    \/ FixMaterialGuidsReport
    \/ FixTextureGuidsLoop
    \/ FixTextureGuidsReport
    \/ FixEmptyTextureGuidsLoop
    \/ FixEmptyTextureGuidsReport

FairSpec == Init /\ [][Next]_vars /\ WF_vars(Running)

TypeOK ==
    /\ pc \in {"idle", "scan", "done"}
    /\ op \in Operations \cup {"none"}
    /\ it \in 1..(NumAssets + 1)
    /\ nextGuid \in (NumAssets + 1)..(2 * NumAssets + 1)

----------------------------------------------------------------------------
\* Vocabulary of the properties.

CollisionScans == {"FixMaterialGuids", "FixTextureGuids"}

ScanKind == IF op = "FixMaterialGuids" THEN "Material" ELSE "Texture"

\* The objects the running (or last) operation enumerates.
Enumerated == {a \in Assets : kind[a] = ScanKind}

Registered == {Guids[k] : k \in DOMAIN Guids}

ScanDone == pc = "done" /\ op \in CollisionScans

SomeGuidChanged == \E a \in Assets : guid[a] /= guidStart[a]

\* C1: an asset whose path is not under /Game/ holds, in every reachable
\* state of any sequence of the three operations, the identifier it had
\* initially.
C1_PolicyGate ==
    \A a \in Assets : ~bIsProjectContent(a) => guid[a] = guid0[a]

\* A collision scan has ended in which an asset outside /Game/ shared its
\* valid identifier with a /Game/ asset that was reassigned.
C1_Witness ==
    /\ ScanDone
    /\ \E a, b \in Enumerated :
          /\ ~bIsProjectContent(a) /\ bIsProjectContent(b)
          /\ IsValid(guidStart[a]) /\ guidStart[a] = guidStart[b]
          /\ guid[b] /= guidStart[b]

\* C2: the second of two collision scans run in succession ends with
\* bMadeChanges = false and with no identifier changed during it.
C2_Idempotence ==
    (ScanDone /\ prevOp = op) => (~bMadeChanges /\ guid = guidStart)

\* C3: at the end of a collision scan bMadeChanges is true if and only if
\* some asset's identifier differs from the one it had at the start.
C3_ChangeFlagTruthful ==
    ScanDone => (bMadeChanges <=> SomeGuidChanged)

\* C4: at the end of FixMaterialGuids every /Game/ material has a valid
\* identifier, and two distinct materials that hold the same valid
\* identifier are both not modifiable.
C4_ResidualOnlyByPolicy ==
    (pc = "done" /\ op = "FixMaterialGuids") =>
        /\ \A a \in Enumerated : bIsProjectContent(a) => IsValid(guid[a])
        /\ \A a, b \in Enumerated :
              (a /= b /\ IsValid(guid[a]) /\ guid[a] = guid[b])
                  => (~bIsProjectContent(a) /\ ~bIsProjectContent(b))

\* C5: at the end of a collision scan no two distinct modifiable assets
\* hold the same valid identifier.
C5_NoModifiablePairCollides ==
    ScanDone =>
        \A a, b \in Enumerated :
            (a /= b /\ bIsProjectContent(a) /\ bIsProjectContent(b)
                 /\ IsValid(guid[a]))
                => guid[a] /= guid[b]

\* A collision scan has ended over three /Game/ assets that shared one
\* valid identifier at its start.
C5_Witness ==
    /\ ScanDone
    /\ \E a, b, c \in Enumerated :
          /\ a /= b /\ b /= c /\ a /= c
          /\ bIsProjectContent(a) /\ bIsProjectContent(b) /\ bIsProjectContent(c)
          /\ IsValid(guidStart[a])
          /\ guidStart[a] = guidStart[b] /\ guidStart[b] = guidStart[c]

\* Exactly the two /Game/ assets a and b held the valid identifier
\* guidStart[a] when the scan started.
PairwiseCollision(a, b) ==
    /\ a /= b
    /\ bIsProjectContent(a) /\ bIsProjectContent(b)
    /\ IsValid(guidStart[a]) /\ guidStart[a] = guidStart[b]
    /\ \A c \in Enumerated \ {a, b} : guidStart[c] /= guidStart[a]

\* C6 as stated: after the scan exactly one of the two assets of a pairwise
\* collision has a new identifier and the other still holds the shared one.
C6_ExactlyOneReassigned ==
    ScanDone =>
        \A a, b \in Enumerated :
            PairwiseCollision(a, b) =>
                \/ guid[a] = guidStart[a] /\ guid[b] /= guidStart[b]
                \/ guid[a] /= guidStart[a] /\ guid[b] = guidStart[b]

\* C6, amended: after the scan both assets of a pairwise collision hold new
\* valid identifiers, different from each other and from the shared one,
\* and no enumerated asset holds the shared identifier any more.
C6_BothReassigned ==
    ScanDone =>
        \A a, b \in Enumerated :
            PairwiseCollision(a, b) =>
                /\ IsValid(guid[a]) /\ IsValid(guid[b])
                /\ guid[a] /= guidStart[a] /\ guid[b] /= guidStart[b]
                /\ guid[a] /= guid[b]
                /\ \A c \in Enumerated : guid[c] /= guidStart[a]

\* A collision scan has ended over a pairwise collision.
C6_Witness ==
    /\ ScanDone
    /\ \E a, b \in Enumerated : PairwiseCollision(a, b)

\* C7: the scan enumerates exactly two assets, which share a valid
\* identifier; when only one is modifiable it is reassigned, the other keeps
\* the identifier, bMadeChanges is true and bHasWarnings false, in either
\* order; when neither is modifiable both keep it, bMadeChanges is false
\* and bHasWarnings true.
C7_MixedOwnership ==
    ScanDone =>
        \A a, b \in Enumerated :
            (/\ Enumerated = {a, b} /\ a /= b
             /\ IsValid(guidStart[a]) /\ guidStart[a] = guidStart[b]
             /\ ~bIsProjectContent(b))
            => IF bIsProjectContent(a)
               THEN /\ guid[a] /= guidStart[a] /\ IsValid(guid[a])
                    /\ guid[b] = guidStart[b]
                    /\ bMadeChanges /\ ~bHasWarnings
               ELSE /\ guid[a] = guidStart[a] /\ guid[b] = guidStart[b]
                    /\ ~bMadeChanges /\ bHasWarnings

Textures == {a \in Assets : kind[a] = "Texture"}

\* Every texture is a /Game/ texture whose identifier was invalid when the
\* running (or last) operation started, and there is such a texture.
OnlyInvalidProjectTextures ==
    /\ Textures /= {}
    /\ \A a \in Textures : bIsProjectContent(a) /\ ~IsValid(guidStart[a])

\* C8: FixTextureGuids never changes the identifier of a texture whose
\* identifier is invalid, never registers it, and has set bHasWarnings once
\* it has visited it, whatever its path; over /Game/ textures with invalid
\* identifiers only it ends with a warning and no change, and
\* FixEmptyTextureGuids run next gives each of them a valid identifier of
\* its own and ends with bMadeChanges true and bHasWarnings false.
C8_TwoStepTextureWorkflow ==
    /\ op = "FixTextureGuids" =>
          \A a \in Textures :
              ~IsValid(guidStart[a]) =>
                  /\ guid[a] = guidStart[a]
                  /\ a \notin Registered
                  /\ visits[a] > 0 => bHasWarnings
    /\ (op = "FixTextureGuids" /\ pc = "done" /\ OnlyInvalidProjectTextures) =>
          /\ bHasWarnings /\ ~bMadeChanges
          /\ guid = guidStart
    /\ (op = "FixEmptyTextureGuids" /\ prevOp = "FixTextureGuids"
            /\ pc = "done" /\ OnlyInvalidProjectTextures) =>
          /\ bMadeChanges /\ ~bHasWarnings
          /\ \A a \in Textures :
                /\ IsValid(guid[a])
                /\ \A b \in Assets \ {a} : guid[b] /= guid[a]

\* FixEmptyTextureGuids has ended right after FixTextureGuids, over /Game/
\* textures whose identifiers were all invalid.
C8_Witness ==
    /\ op = "FixEmptyTextureGuids" /\ prevOp = "FixTextureGuids"
    /\ pc = "done"
    /\ OnlyInvalidProjectTextures

\* C9: FixEmptyTextureGuids leaves every valid identifier unchanged and
\* keeps no registry; over textures whose identifiers are all valid it ends
\* with no identifier changed, bMadeChanges false and bHasWarnings false.
C9_FixMissingFrame ==
    op = "FixEmptyTextureGuids" =>
        /\ \A a \in Assets : IsValid(guidStart[a]) => guid[a] = guidStart[a]
        /\ Guids = EmptyMap
        /\ (pc = "done" /\ \A a \in Textures : IsValid(guidStart[a])) =>
              /\ guid = guidStart
              /\ ~bMadeChanges /\ ~bHasWarnings

\* FixEmptyTextureGuids has ended over textures with valid identifiers,
\* two of which, one under /Game/ and one not, share an identifier.
C9_Witness ==
    /\ op = "FixEmptyTextureGuids" /\ pc = "done"
    /\ \A a \in Textures : IsValid(guidStart[a])
    /\ \E a, b \in Textures :
          /\ a /= b /\ guidStart[a] = guidStart[b]
          /\ bIsProjectContent(a) /\ ~bIsProjectContent(b)

ReportStrings(o) ==
    IF o = "FixMaterialGuids"
    THEN {MaterialDialogText(m, w) : m \in BOOLEAN, w \in BOOLEAN}
    ELSE IF o = "FixTextureGuids"
    THEN {TextureDialogText(m, w) : m \in BOOLEAN, w \in BOOLEAN}
    ELSE {EmptyTextureDialogText(m, w) : m \in BOOLEAN, w \in BOOLEAN}

\* No object is the current one twice, and at the report every enumerated
\* object has been the current one exactly once and one of the four report
\* strings of the operation is shown.
EveryAssetVisitedOnce ==
    /\ \A a \in Assets : visits[a] <= 1
    /\ \A a \in Assets \ Enumerated : visits[a] = 0
    /\ pc = "done" =>
          /\ \A a \in Enumerated : visits[a] = 1
          /\ DialogText \in ReportStrings(op)
          /\ Cardinality(ReportStrings(op)) = 4

\* C10: each of the three operations, once started, reaches its report;
\* every enumerated asset is visited exactly once, also after an asset that
\* only raised a warning, and one of the four report strings is produced.
C10_ScanCompletes ==
    /\ []EveryAssetVisitedOnce
    /\ \A o \in Operations :
          (pc = "scan" /\ op = o) ~> (pc = "done" /\ op = o)

\* An operation has reported after an asset that raised a warning was
\* followed by another asset, which was visited too.
C10_Witness ==
    /\ pc = "done" /\ bHasWarnings
    /\ \E a, b \in Enumerated :
          /\ a < b
          /\ ~IsValid(guidStart[a]) /\ ~bIsProjectContent(a)
          /\ visits[b] = 1

\* Two distinct enumerated assets hold the same valid identifier.
SharedGuidRemains ==
    \E a, b \in Enumerated :
        a /= b /\ IsValid(guid[a]) /\ guid[a] = guid[b]

\* C11: a collision scan that ends with bHasWarnings = false, and so in
\* particular one that shows "No duplicate ... GUIDs found.", leaves no two
\* distinct enumerated assets with the same valid identifier.
C11_CleanReportCleanSet ==
    (ScanDone /\ ~bHasWarnings) => ~SharedGuidRemains

\* C12: during and after a collision scan every registry entry maps a key
\* to an asset that holds that key as its identifier, and no asset is
\* registered under two keys.
C12_RegistryConsistent ==
    op \in CollisionScans =>
        /\ \A k \in DOMAIN Guids : guid[Guids[k]] = k
        /\ \A k1, k2 \in DOMAIN Guids : Guids[k1] = Guids[k2] => k1 = k2

\* A scan is running in which a registered incumbent was reassigned, is
\* registered under its new identifier, and its old key, removed then, is
\* registered again for an asset enumerated later.
C12_Witness ==
    /\ op \in CollisionScans /\ pc = "scan"
    /\ \E a \in Registered :
          /\ guid[a] /= guidStart[a]
          /\ IsValid(guidStart[a])
          /\ MapContains(Guids, guidStart[a])
          /\ Guids[guidStart[a]] > a


\* The /Game/ assets a, b and c, and no other enumerated asset, held the
\* valid identifier guidStart[a] when the scan started.
ThreeWayCollision(a, b, c) ==
    /\ a /= b /\ b /= c /\ a /= c
    /\ bIsProjectContent(a) /\ bIsProjectContent(b) /\ bIsProjectContent(c)
    /\ IsValid(guidStart[a])
    /\ guidStart[a] = guidStart[b] /\ guidStart[b] = guidStart[c]
    /\ \A d \in Enumerated \ {a, b, c} : guidStart[d] /= guidStart[a]

\* C13: after a collision scan over a three-way collision of /Game/ assets
\* the three hold pairwise distinct valid identifiers, at least two of them
\* new ones, and bMadeChanges is true; bHasWarnings is false when the three
\* are all the scan enumerates.
C13_ThreeWayCollision ==
    ScanDone =>
        \A a, b, c \in Enumerated :
            ThreeWayCollision(a, b, c) =>
                /\ IsValid(guid[a]) /\ IsValid(guid[b]) /\ IsValid(guid[c])
                /\ guid[a] /= guid[b] /\ guid[b] /= guid[c] /\ guid[a] /= guid[c]
                /\ Cardinality({x \in {a, b, c} : guid[x] /= guidStart[x]}) >= 2
                /\ bMadeChanges
                /\ Enumerated = {a, b, c} => ~bHasWarnings

\* A collision scan has ended over exactly three /Game/ assets that shared
\* one valid identifier.
C13_Witness ==
    /\ ScanDone
    /\ \E a, b, c \in Enumerated :
          ThreeWayCollision(a, b, c) /\ Enumerated = {a, b, c}


\* The enumeration orders of the enumerated assets.
Orders ==
    {o \in [1..Cardinality(Enumerated) -> Enumerated] :
        \A i, j \in DOMAIN o : o[i] = o[j] => i = j}

\* The locals and GUIDs with which the running (or last) scan started.
ScanStart ==
    [guid |-> guidStart, nextGuid |-> nextGuid, Guids |-> EmptyMap,
     bMadeChanges |-> FALSE, bHasWarnings |-> FALSE,
     bAnyGuidsModified |-> FALSE, skip |-> FALSE]

RECURSIVE ScanInOrder(_, _, _)
\* The loop of the collision scan run from the locals s over order[i..].
ScanInOrder(s, order, i) ==
    IF i > Len(order)
    THEN s
    ELSE LET s0 == [s EXCEPT !.bAnyGuidsModified = FALSE, !.skip = FALSE]
             s1 == IF op = "FixMaterialGuids"
                   THEN MaterialBody(s0, order[i])
                   ELSE TextureBody(s0, order[i])
         IN  ScanInOrder(s1, order, i + 1)

\* The pairs of distinct enumerated assets that share an identifier in g.
SharingPairs(g) ==
    {p \in Enumerated \X Enumerated : p[1] /= p[2] /\ g[p[1]] = g[p[2]]}

\* The scan that ran is the scan of the slots in index order.
ScanInOrderAgrees ==
    ScanDone =>
        \A o \in Orders :
            (\A i, j \in DOMAIN o : i < j => o[i] < o[j]) =>
                LET s == ScanInOrder(ScanStart, o, 1)
                IN  /\ s.bMadeChanges = bMadeChanges
                    /\ s.bHasWarnings = bHasWarnings
                    /\ SharingPairs(s.guid) = SharingPairs(guid)

\* C14: the scan of the same assets in any other enumeration order ends
\* with the same bMadeChanges and bHasWarnings, hence the same report, and
\* with the same pairs of assets sharing an identifier.
C14_OrderIndependent ==
    ScanDone =>
        \A o \in Orders :
            LET s == ScanInOrder(ScanStart, o, 1)
            IN  /\ s.bMadeChanges = bMadeChanges
                /\ s.bHasWarnings = bHasWarnings
                /\ SharingPairs(s.guid) = SharingPairs(guid)


Materials == {a \in Assets : kind[a] = "Material"}

\* C15: in FixMaterialGuids a material whose identifier was invalid keeps
\* it until it is visited; once visited, a /Game/ material holds a new valid
\* identifier of its own, bMadeChanges is true and the registry maps that
\* identifier to it; a material outside /Game/ keeps the invalid
\* identifier, bHasWarnings is true, and neither the material nor the
\* invalid identifier is ever in the registry.
C15_InlineRepair ==
    op = "FixMaterialGuids" =>
        \A a \in Materials :
            ~IsValid(guidStart[a]) =>
                /\ visits[a] = 0 => guid[a] = guidStart[a]
                /\ (visits[a] = 1 /\ bIsProjectContent(a)) =>
                      /\ IsValid(guid[a])
                      /\ \A b \in Assets \ {a} : guid[b] /= guid[a]
                      /\ bMadeChanges
                      /\ MapContains(Guids, guid[a])
                      /\ Guids[guid[a]] = a
                /\ ~bIsProjectContent(a) =>
                      /\ guid[a] = guidStart[a]
                      /\ visits[a] = 1 => bHasWarnings
                      /\ a \notin Registered
                /\ ~MapContains(Guids, InvalidGuid)

\* FixMaterialGuids has ended over a /Game/ material and a material outside
\* /Game/ whose identifiers were both invalid.
C15_Witness ==
    /\ op = "FixMaterialGuids" /\ pc = "done"
    /\ \E a, b \in Materials :
          /\ ~IsValid(guidStart[a]) /\ ~IsValid(guidStart[b])
          /\ bIsProjectContent(a) /\ ~bIsProjectContent(b)

====
